---------------------------- MODULE Spec2Model ----------------------------
(***************************************************************************)
(* A model of the GCP RAG chatbot: the paragraph chunker, the batched      *)
(* indexer and the retriever of app/document_processor.py, the per-session *)
(* RAG chains of app/rag_chain.py and the request handlers of app/main.py. *)
(*                                                                         *)
(* A text is a sequence of one-character strings.  The external            *)
(* capabilities (the embedding model, the Chroma collection, the           *)
(* completion client, the PDF reader) are modelled by their contracts at   *)
(* the places where the code calls them; each of their calls can raise.    *)
(***************************************************************************)
EXTENDS Integers, Sequences, FiniteSets, TLC

(***************************************************************************)
(* Bounds of the model.                                                    *)
(***************************************************************************)
\* longest input text handed to the chunker on its own
MaxTextLen == 7
\* largest chunk-size threshold handed to the chunker on its own
MaxChunkSize == 4

(***************************************************************************)
(* Texts.                                                                  *)
(***************************************************************************)
NL == "\n"

Alphabet == {"a", " ", NL}

Texts == UNION {[1..n -> Alphabet] : n \in 0..MaxTextLen}

Rep(c, n) == [i \in 1..n |-> c]

\* the characters str.strip() removes
IsSpace(c) == c \in {" ", NL}

\* str.strip(): the text without its leading and trailing whitespace
Strip(s) ==
    IF \A i \in 1..Len(s) : IsSpace(s[i])
    THEN <<>>
    ELSE LET first == CHOOSE i \in 1..Len(s) :
                          ~IsSpace(s[i]) /\ \A j \in 1..(i - 1) : IsSpace(s[j])
             last  == CHOOSE i \in 1..Len(s) :
                          ~IsSpace(s[i]) /\ \A j \in (i + 1)..Len(s) : IsSpace(s[j])
         IN  SubSeq(s, first, last)

\* the first position of the run of newlines that position i lies in
RunStart(s, i) ==
    CHOOSE j \in 1..i : (\A k \in j..i : s[k] = NL) /\ (j = 1 \/ s[j - 1] # NL)

\* where str.split finds the separator "\n\n": the non-overlapping
\* occurrences, scanning from the left
SepStarts(s) ==
    {i \in 1..(Len(s) - 1) :
        s[i] = NL /\ s[i + 1] = NL /\ (i - RunStart(s, i)) % 2 = 0}

\* text.split('\n\n'): the pieces between the separators, in order (one
\* piece, the text itself, when there is no separator)
SplitParagraphs(s) ==
    LET seps     == SepStarts(s)
        n        == Cardinality(seps)
        Nth(j)   == CHOOSE p \in seps : Cardinality({q \in seps : q < p}) = j - 1
        From(j)  == IF j = 1 THEN 1 ELSE Nth(j - 1) + 2
        To(j)    == IF j = n + 1 THEN Len(s) ELSE Nth(j) - 1
    IN  [j \in 1..(n + 1) |-> SubSeq(s, From(j), To(j))]

(***************************************************************************)
(* DocumentProcessor.chunk_text_simple                                     *)
(***************************************************************************)
Digit(d) == <<"0", "1", "2", "3", "4", "5", "6", "7", "8", "9">>[d + 1]

\* the decimal digits of a natural number, as an f-string prints it
RECURSIVE Decimal(_)
Decimal(n) == IF n < 10 THEN <<Digit(n)>>
              ELSE Decimal(n \div 10) \o <<Digit(n % 10)>>

\* f"page{page_num}_chunk{chunk_id}"
ChunkIdStr(page_num, chunk_id) ==
    <<"page">> \o Decimal(page_num) \o <<"_chunk">> \o Decimal(chunk_id)

MakeChunk(page_num, chunk_id, current_chunk) ==
    [id |-> ChunkIdStr(page_num, chunk_id),
     text |-> Strip(current_chunk),
     page |-> page_num]

\* a mutant: the ordinal is not advanced after a chunk is saved
SameChunkId(chunk_id) == chunk_id

\* chunk_id += 1
NextChunkId(chunk_id) == chunk_id + 1

\* the loop's condition for saving the current chunk
ExceedsChunkSize(current_chunk, para, chunk_size) ==
    Len(current_chunk) + Len(para) > chunk_size /\ current_chunk # <<>>

\* one iteration of "for para in paragraphs", on the loop's variables
\* a mutant: the paragraph takes the place of what the chunk held
ReplaceParagraph(current_chunk, para) == para

\* current_chunk += "\n\n" + para if current_chunk else para
JoinParagraph(current_chunk, para) ==
    IF current_chunk # <<>> THEN current_chunk \o <<NL, NL>> \o para ELSE para

ChunkStep(st, raw_para, page_num, chunk_size) ==
    LET para == Strip(raw_para) IN
    IF para = <<>> THEN st
    ELSE IF ExceedsChunkSize(st.current_chunk, para, chunk_size)
    THEN [chunks |-> Append(st.chunks,
                            MakeChunk(page_num, st.chunk_id, st.current_chunk)),
          chunk_id |-> NextChunkId(st.chunk_id),
          current_chunk |-> para]
    ELSE [st EXCEPT !.current_chunk = JoinParagraph(@, para)]

RECURSIVE ChunkLoop(_, _, _, _, _)
ChunkLoop(st, paragraphs, i, page_num, chunk_size) ==
    IF i > Len(paragraphs) THEN st
    ELSE ChunkLoop(ChunkStep(st, paragraphs[i], page_num, chunk_size),
                   paragraphs, i + 1, page_num, chunk_size)

chunk_text_simple(text, page_num, chunk_size) ==
    LET st == ChunkLoop([chunks |-> <<>>, chunk_id |-> 0, current_chunk |-> <<>>],
                        SplitParagraphs(text), 1, page_num, chunk_size)
    IN  IF Strip(st.current_chunk) # <<>>
        THEN Append(st.chunks, MakeChunk(page_num, st.chunk_id, st.current_chunk))
        ELSE st.chunks

(***************************************************************************)
(* The capabilities the indexer and the retriever call.                    *)
(***************************************************************************)
\* Batch size for processing to avoid memory issues
BATCH_SIZE == 50

\* chunk_size: int = 800, the default process_and_store_pdf chunks with
DefaultChunkSize == 800

\* embedding_model.encode on one text: a vector that is a function of the
\* text alone (one dimension here: the text's length)
Embed(text) == Len(text)

\* the distance the collection ranks by (squared L2)
Distance(u, v) == (u - v) * (u - v)

\* the capability calls that can raise: collection.count, the PDF reader,
\* embedding_model.encode, collection.add, collection.query and
\* client.messages.create
Caps == {"count", "read", "encode", "add", "query", "complete"}

\* which call of a run raises: the n-th call of capability cap, or none
FailCaps == {"count", "read", "encode", "add"}

MaxFailN == 2

NoFail == [cap |-> "none", n |-> 0]

FailPlans == {NoFail} \cup {[cap |-> c, n |-> k] : c \in FailCaps, k \in 1..MaxFailN}

\* how many calls of each capability a run has made so far
NoCalls == [c \in Caps |-> 0]

\* whether the next call of cap, in a run that has made the calls n, raises
Raises(plan, n, cap) == plan.cap = cap /\ plan.n = n[cap] + 1

\* an entry of a run's log of embedding and collection calls
Call(cap, arg, ok) == [cap |-> cap, arg |-> arg, ok |-> ok]

\* the run after a call of cap; the reads of the source are counted only
Called(run, cap, arg, ok) ==
    [run EXCEPT !.n[cap] = @ + 1,
                !.failed = ~ok,
                !.log = IF cap = "read" THEN @ ELSE Append(@, Call(cap, arg, ok))]

IdsOf(coll) == {coll[i].id : i \in 1..Len(coll)}

\* collection.add: the records are persisted in one call; an id the
\* collection already holds is not inserted again
CollectionAdd(coll, chunks) ==
    coll \o SelectSeq([i \in 1..Len(chunks) |->
                          [id |-> chunks[i].id,
                           embedding |-> Embed(chunks[i].text),
                           document |-> chunks[i].text,
                           metadata |-> [page |-> chunks[i].page]]],
                      LAMBDA r : r.id \notin IdsOf(coll))

\* collection.count()
CollectionCount(coll) == Len(coll)

(***************************************************************************)
(* The source document: PdfReader(pdf_path).pages and page.extract_text(). *)
(* A document is named by its style and its number of pages.               *)
(***************************************************************************)
Styles == {"plain", "gaps", "long", "blank"}

\* a page of two paragraphs that do not fit one chunk of DefaultChunkSize
LongPage ==
    Rep("a", DefaultChunkSize \div 2 + 1) \o <<NL, NL>> \o
    Rep("b", DefaultChunkSize \div 2 + 1)

\* page.extract_text() of page i (1-based).  "plain": short pages of one
\* chunk each; "gaps": every third page blank; "long": short pages, and
\* from page BATCH_SIZE on pages of two chunks each; "blank": no page has
\* any text
ExtractText(pdf, i) ==
    CASE pdf.style = "plain" -> IF i % 2 = 0 THEN <<" ", "a", NL, NL, "b", NL>>
                                ELSE Rep("a", 1 + (i % 3))
      [] pdf.style = "gaps"  -> IF i % 3 = 0 THEN <<" ", NL>> ELSE <<"a", NL, "b">>
      [] pdf.style = "long"  -> IF i >= BATCH_SIZE THEN LongPage ELSE <<"b">>
      [] pdf.style = "blank" -> IF i % 2 = 0 THEN <<>> ELSE <<" ", NL>>

(***************************************************************************)
(* DocumentProcessor._store_batch, on the state of one indexing run:       *)
(* coll (the collection), log (the capability calls made so far),          *)
(* failed (an exception is propagating), all_chunks, total_indexed.        *)
(***************************************************************************)
_store_batch(run, plan, chunks) ==
    IF chunks = <<>> THEN [run |-> run, indexed |-> 0]
    ELSE LET ids == [i \in 1..Len(chunks) |-> chunks[i].id] IN
         IF Raises(plan, run.n, "encode")
         THEN [run |-> Called(run, "encode", ids, FALSE), indexed |-> 0]
         ELSE LET run1 == Called(run, "encode", ids, TRUE) IN
              IF Raises(plan, run1.n, "add")
              THEN [run |-> Called(run1, "add", ids, FALSE), indexed |-> 0]
              ELSE [run |-> [Called(run1, "add", ids, TRUE) EXCEPT
                                 !.coll = CollectionAdd(@, chunks)],
                    indexed |-> Len(chunks)]

\* a mutant: the batch is stored and all_chunks is not cleared
KeepBuffer(all_chunks) == all_chunks

\* all_chunks = []
ClearBuffer(all_chunks) == <<>>

\* a mutant: the buffer is flushed once it holds more than BATCH_SIZE
BufferOverfull(all_chunks) == Len(all_chunks) > BATCH_SIZE

\* if len(all_chunks) >= BATCH_SIZE
BufferFull(all_chunks) == Len(all_chunks) >= BATCH_SIZE

\* the body of "for page_num, page_text in self.extract_pages_generator":
\* page i of the reader, skipped by the generator when its text is blank
IndexPage(run, plan, pdf, i) ==
    IF Raises(plan, run.n, "read") THEN Called(run, "read", <<>>, FALSE)
    ELSE
    LET page_text == ExtractText(pdf, i)
        run1 == Called(run, "read", <<>>, TRUE)
    IN  IF Strip(page_text) = <<>> THEN run1
        ELSE
        LET page_chunks == chunk_text_simple(Strip(page_text), i, DefaultChunkSize)
            run2 == [run1 EXCEPT !.all_chunks = @ \o page_chunks]
        IN  IF BufferFull(run2.all_chunks)
            THEN LET b == _store_batch(run2, plan, run2.all_chunks) IN
                 IF b.run.failed THEN b.run
                 ELSE [b.run EXCEPT !.total_indexed = @ + b.indexed,
                                    !.all_chunks = ClearBuffer(@)]
            ELSE run2

\* a mutant: an exception of a batch flush is swallowed, the loop goes on
LoopEndsAtLastPage(run, pdf, i) ==
    (run.failed /\ run.log = <<>>) \/ i > pdf.pages

\* the loop ends with the reader's last page, or with an exception
LoopEnds(run, pdf, i) == run.failed \/ i > pdf.pages

\* the iterations of the loop for the pages i..j, one after the other: the
\* first half and then, from the state the first half leaves, the second
\* half, so that a long document is evaluated without deep nesting
RECURSIVE PagesFrom(_, _, _, _, _)
PagesFrom(run, plan, pdf, i, j) ==
    IF LoopEnds(run, pdf, i) THEN run
    ELSE IF i = j THEN IndexPage(run, plan, pdf, i)
    ELSE LET mid == (i + j) \div 2
             half == PagesFrom(run, plan, pdf, i, mid)
         IN  PagesFrom(half, plan, pdf, mid + 1, j)

\* the loop from page i to the reader's last page
IndexPages(run, plan, pdf, i) == PagesFrom(run, plan, pdf, i, pdf.pages)

\* a mutant: only a collection of more than one batch counts as indexed
MoreThanOneBatch(count) == count > BATCH_SIZE

\* a mutant: no check whether the collection already holds records
NeverIndexed(count) == FALSE

\* if self.collection.count() > 0
AlreadyIndexed(count) == count > 0

\* process_and_store_pdf: the collection afterwards, the calls made, and
\* the count returned (status "ok") or the exception (status "error")
process_and_store_pdf(coll, pdf, plan) ==
    LET run0 == [coll |-> coll, log |-> <<>>, n |-> NoCalls, failed |-> FALSE,
                 all_chunks |-> <<>>, total_indexed |-> 0]
        Error(run) == [status |-> "error", count |-> 0,
                       coll |-> run.coll, log |-> run.log]
        Ok(run, count) == [status |-> "ok", count |-> count,
                           coll |-> run.coll, log |-> run.log]
    IN
    IF Raises(plan, run0.n, "count") THEN Error(Called(run0, "count", <<>>, FALSE))
    ELSE
    LET run1 == Called(run0, "count", <<>>, TRUE) IN
    IF AlreadyIndexed(CollectionCount(coll))
    THEN IF Raises(plan, run1.n, "count")
         THEN Error(Called(run1, "count", <<>>, FALSE))
         ELSE Ok(Called(run1, "count", <<>>, TRUE), CollectionCount(coll))
    ELSE
    \* PdfReader(pdf_path), when the loop asks the generator for its first page
    IF Raises(plan, run1.n, "read") THEN Error(Called(run1, "read", <<>>, FALSE))
    ELSE
    LET run2 == IndexPages(Called(run1, "read", <<>>, TRUE), plan, pdf, 1) IN
    IF run2.failed THEN Error(run2)
    ELSE IF run2.all_chunks # <<>>
    THEN LET b == _store_batch(run2, plan, run2.all_chunks) IN
         IF b.run.failed THEN Error(b.run)
         ELSE Ok(b.run, run2.total_indexed + b.indexed)
    ELSE Ok(run2, run2.total_indexed)

(***************************************************************************)
(* DocumentProcessor.search                                                *)
(***************************************************************************)
\* max_context_chunks: int = 5
max_context_chunks == 5

\* an optional argument: None, or a value
None == <<>>

Some(v) == <<v>>

\* Python's "x or default" on an optional integer: the default for None
\* and for 0, x for every other value
Or(x, default) == IF x = None \/ x[1] = 0 THEN default ELSE x[1]

\* whether record i of the collection is ranked before record j for the
\* query embedding qe: nearer first, the earlier inserted first among equals
RankedBefore(coll, qe, i, j) ==
    LET di == Distance(qe, coll[i].embedding)
        dj == Distance(qe, coll[j].embedding)
    IN  di < dj \/ (di = dj /\ i < j)

\* the collection's records, nearest to qe first
Ranked(coll, qe) ==
    LET n == Len(coll)
        Rank(i) == Cardinality({j \in 1..n : RankedBefore(coll, qe, j, i)})
    IN  [r \in 1..n |-> coll[CHOOSE i \in 1..n : Rank(i) = r - 1]]

Min(a, b) == IF a <= b THEN a ELSE b

\* collection.query(query_embeddings=[qe], n_results=k, include=[...]): the
\* k nearest records, or all of them when the collection holds fewer
CollectionQuery(coll, qe, k) ==
    LET top == SubSeq(Ranked(coll, qe), 1, Min(k, Len(coll))) IN
    [documents |-> <<[i \in 1..Len(top) |-> top[i].document]>>,
     distances |-> <<[i \in 1..Len(top) |-> Distance(qe, top[i].embedding)]>>,
     metadatas |-> <<[i \in 1..Len(top) |-> top[i].metadata]>>]

\* the collection rejects a number of results that is not positive
QueryRejects(k) == k <= 0

\* a mutant: the results in reverse
FormatReversed(results) ==
    LET n == Len(results.documents[1]) IN
    [i \in 1..n |->
        [text |-> results.documents[1][n + 1 - i],
         distance |-> Some(results.distances[1][n + 1 - i]),
         metadata |-> Some(results.metadatas[1][n + 1 - i])]]

\* "Format results": one dict per document, in the order delivered
FormatResults(results) ==
    IF results.documents # <<>> /\ results.documents[1] # <<>>
    THEN [i \in 1..Len(results.documents[1]) |->
             [text |-> results.documents[1][i],
              distance |-> IF results.distances # <<>>
                           THEN Some(results.distances[1][i]) ELSE None,
              metadata |-> IF results.metadatas # <<>>
                           THEN Some(results.metadatas[1][i]) ELSE None]]
    ELSE <<>>

\* search(query, n_results), on a run (the calls made so far): the run
\* afterwards, and the results or, when run.failed, the exception
search(run, plan, query, n_results) ==
    LET k == Or(n_results, max_context_chunks) IN
    IF Raises(plan, run.n, "encode")
    THEN [run |-> Called(run, "encode", <<query>>, FALSE), results |-> <<>>]
    ELSE
    LET run1 == Called(run, "encode", <<query>>, TRUE) IN
    IF Raises(plan, run1.n, "query") \/ QueryRejects(k)
    THEN [run |-> Called(run1, "query", <<k>>, FALSE), results |-> <<>>]
    ELSE [run |-> Called(run1, "query", <<k>>, TRUE),
          results |-> FormatResults(CollectionQuery(run.coll, Embed(query), k))]

(***************************************************************************)
(* RAGChain                                                                *)
(***************************************************************************)
\* if len(self.conversation_history) > 20: the most turns kept
HistoryCap == 20

\* self.conversation_history[-6:]: the most prior turns sent
HistoryWindow == 6

\* s[-n:], the last n elements of a list (all of it when it is shorter)
LastN(s, n) == IF Len(s) <= n THEN s ELSE SubSeq(s, Len(s) - n + 1, Len(s))

Turn(role, content) == [role |-> role, content |-> content]

\* _build_context_prompt
ContextPart(i, chunk) ==
    <<"[Context ">> \o Decimal(i) \o <<"]", NL>> \o chunk.text

\* "\n\n".join(context_parts), from part i on
RECURSIVE JoinParts(_, _)
JoinParts(context_chunks, i) ==
    IF i = Len(context_chunks) THEN ContextPart(i, context_chunks[i])
    ELSE ContextPart(i, context_chunks[i]) \o <<NL, NL>>
             \o JoinParts(context_chunks, i + 1)

_build_context_prompt(context_chunks) ==
    IF context_chunks = <<>>
    THEN <<"No relevant context found in the documentation.">>
    ELSE JoinParts(context_chunks, 1)

\* the f-string that embeds the context block and the question
UserMessage(context, question) ==
    <<"Based on the following context", NL, NL, "CONTEXT:", NL>> \o context
        \o <<NL, NL, "QUESTION: ">> \o question
        \o <<NL, NL, "Please provide a helpful and accurate answer">>

\* client.messages.create(...).content[0].text: a text that is a function
\* of the messages sent (here, of how many there are)
Completion(messages) == <<"answer">> \o Decimal(Len(messages))

\* a mutant: every turn of the history is sent
AllTurns(history) == history

\* if include_history and self.conversation_history:
\*     messages.extend(self.conversation_history[-6:])
RecentTurns(history) ==
    IF history # <<>> THEN LastN(history, HistoryWindow) ELSE <<>>

\* a mutant: the trim keeps one turn less than the cap
TrimOneMore(history) ==
    IF Len(history) > HistoryCap THEN LastN(history, HistoryCap - 1) ELSE history

\* a mutant: the history keeps its first turns
TrimKeepFirst(history) ==
    IF Len(history) > HistoryCap THEN SubSeq(history, 1, HistoryCap) ELSE history

\* "Keep history manageable"
TrimHistory(history) ==
    IF Len(history) > HistoryCap THEN LastN(history, HistoryCap) ELSE history

\* a mutant: the prompt sent is what the history keeps as the user's turn
AppendPrompt(history, question, user_message, answer) ==
    history \o <<Turn("user", user_message), Turn("assistant", answer)>>

\* "Update conversation history"
AppendExchange(history, question, user_message, answer) ==
    history \o <<Turn("user", question), Turn("assistant", answer)>>

\* a mutant: the user's turn is appended before the completion client is
\* called, and stays when the call raises
UserTurnKept(history, question) == history \o <<Turn("user", question)>>

\* the history when search or the completion client raises: the exception
\* leaves query before "Update conversation history"
HistoryOnError(history, question) == history

\* RAGChain.query(question, include_history=True, max_context_chunks), on
\* the chain's conversation_history: the history afterwards, the messages
\* sent to the completion client, the calls made, and the dict returned
\* (status "ok") or the exception (status "error")
query(coll, history, plan, question, max_ctx) ==
    LET max_chunks == Or(max_ctx, max_context_chunks)
        run0 == [coll |-> coll, log |-> <<>>, n |-> NoCalls, failed |-> FALSE]
        s == search(run0, plan, question, Some(max_chunks))
    IN
    IF s.run.failed
    THEN [status |-> "error", history |-> HistoryOnError(history, question),
          sent |-> <<>>, log |-> s.run.log, answer |-> <<>>, context_used |-> 0]
    ELSE
    LET relevant_chunks == s.results
        user_message == UserMessage(_build_context_prompt(relevant_chunks), question)
        messages == RecentTurns(history) \o <<Turn("user", user_message)>>
    IN
    IF Raises(plan, s.run.n, "complete")
    THEN [status |-> "error", history |-> HistoryOnError(history, question),
          sent |-> messages,
          log |-> Called(s.run, "complete", <<>>, FALSE).log,
          answer |-> <<>>, context_used |-> 0]
    ELSE
    LET answer == Completion(messages) IN
    [status |-> "ok",
     history |-> TrimHistory(AppendExchange(history, question, user_message, answer)),
     sent |-> messages,
     log |-> Called(s.run, "complete", <<>>, TRUE).log,
     answer |-> answer,
     context_used |-> Len(relevant_chunks)]

\* get_rag_chain(session_id).get_history(): a chain that does not exist is
\* created with an empty history
HistoryOf(chains, session_id) ==
    IF session_id \in DOMAIN chains THEN chains[session_id] ELSE <<>>

\* a mutant: every session's chain is deleted
ClearAll(chains, session_id) == <<>>

\* a mutant: the session's chain is kept and only looked up
KeepSession(chains, session_id) == chains

\* clear_session: del _rag_chains[session_id], when it is there
clear_session(chains, session_id) ==
    [sid \in DOMAIN chains \ {session_id} |-> chains[sid]]

(***************************************************************************)
(* State.                                                                  *)
(***************************************************************************)
VARIABLES
    ckText,      \* chunker run: the text argument
    ckSize,      \* chunker run: the chunk_size argument
    ckPage,      \* chunker run: the page_num argument
    ckOut,       \* chunker run: the list returned
    ckDone,      \* chunker run: whether the call has returned
    pdf_path,    \* settings.pdf_path: the source document
    collection,  \* the Chroma collection: its records, in insertion order
    ixRuns,      \* how many times process_and_store_pdf has been called
    ixRet,       \* the last call's outcome: the count returned, or an error
    ixLog,       \* the capability calls the last call made, in order
    ixPrev,      \* the outcome and the collection before the last call
    srArgs,      \* the last search call: its query and n_results, and which
                 \* capability call was made to raise
    srRet,       \* the last search call: its results, or an error
    srLog,       \* the capability calls the last search call made
    phase,       \* the service: "boot", "serving" or "crashed"
    pdfExists,   \* os.path.exists(settings.pdf_path)
    _rag_chains, \* session id -> the chain's conversation_history
    last,        \* the last request handled and its response (for a clear,
                 \* also how many turns the session held)
    nReq,        \* how many requests have been handled
    inflight,    \* the event loop: the /chat requests accepted, each with
                 \* the statement its handler has reached
    workers      \* the server processes: each one's lifespan, with the
                 \* statement of process_and_store_pdf it has reached

ckVars == <<ckText, ckSize, ckPage, ckOut, ckDone>>

ixVars == <<pdf_path, collection, ixRuns, ixRet, ixLog, ixPrev>>

srVars == <<srArgs, srRet, srLog>>

svVars == <<phase, pdfExists, _rag_chains, last, nReq>>

ccVars == <<inflight, workers>>

vars == <<ckVars, ixVars, srVars, svVars, ccVars>>

NoChunkerRun ==
    /\ ckText = <<>>
    /\ ckSize = DefaultChunkSize
    /\ ckPage = 1
    /\ ckOut = <<>>
    /\ ckDone = FALSE

NoRet == [status |-> "none", count |-> 0]

NoIndexRun ==
    /\ ixRuns = 0
    /\ ixRet = NoRet
    /\ ixLog = <<>>
    /\ ixPrev = [ret |-> NoRet, coll |-> <<>>]

NoSearch ==
    /\ srArgs = [query |-> <<>>, n_results |-> None, plan |-> NoFail]
    /\ srRet = [status |-> "none", results |-> <<>>]
    /\ srLog = <<>>

NoRequest == [op |-> "none"]

NoTasks ==
    /\ inflight = <<>>
    /\ workers = <<>>

NoService ==
    /\ phase = "boot"
    /\ pdfExists = TRUE
    /\ _rag_chains = <<>>
    /\ last = NoRequest
    /\ nReq = 0
    /\ NoTasks

(***************************************************************************)
(* The chunker called on its own, on every bounded text and threshold.     *)
(***************************************************************************)
ChunkPages == {1, 12}

InitChunk ==
    /\ ckText \in Texts
    /\ ckSize \in 1..MaxChunkSize
    /\ ckPage \in ChunkPages
    /\ ckOut = <<>>
    /\ ckDone = FALSE
    /\ pdf_path = [style |-> "plain", pages |-> 0]
    /\ collection = <<>>
    /\ NoIndexRun
    /\ NoSearch
    /\ NoService

ChunkCall ==
    /\ ~ckDone
    /\ ckOut' = chunk_text_simple(ckText, ckPage, ckSize)
    /\ ckDone' = TRUE
    /\ UNCHANGED <<ckText, ckSize, ckPage, ixVars, srVars, svVars, ccVars>>

NextChunk == ChunkCall

SpecChunk == InitChunk /\ [][NextChunk]_vars

(***************************************************************************)
(* The indexer called on its own: process_and_store_pdf, again and again   *)
(* on one source document and one collection, any one capability call of  *)
(* a run raising.                                                          *)
(***************************************************************************)
\* most pages of a source document of short pages
MaxPages == 102
\* most pages of a source document that has blank pages
MaxGapPages == 8
\* most pages of a source document that has long pages
MaxLongPages == 52
\* most pages of a source document with no text on any page
MaxBlankPages == 2
\* most calls of process_and_store_pdf
MaxIndexRuns == 3

\* the numbers of pages tried: few, and about the multiples of BATCH_SIZE,
\* where the batches are stored
NearBatch(n) == n <= 3 \/ (n + 2) % BATCH_SIZE <= 4

Docs == {[style |-> "plain", pages |-> n] : n \in {m \in 0..MaxPages : NearBatch(m)}}
        \cup {[style |-> "gaps", pages |-> n] : n \in 0..MaxGapPages}
        \cup {[style |-> "long", pages |-> n] : n \in (BATCH_SIZE - 1)..MaxLongPages}
        \cup {[style |-> "blank", pages |-> n] : n \in 1..MaxBlankPages}

InitIndex ==
    /\ NoChunkerRun
    /\ pdf_path \in Docs
    /\ collection = <<>>
    /\ NoIndexRun
    /\ NoSearch
    /\ NoService

IndexCall ==
    /\ ixRuns < MaxIndexRuns
    /\ \E plan \in FailPlans :
       \E r \in {process_and_store_pdf(collection, pdf_path, plan)} :
          /\ collection' = r.coll
          /\ ixRet' = [status |-> r.status, count |-> r.count]
          /\ ixLog' = r.log
    /\ ixRuns' = ixRuns + 1
    /\ ixPrev' = [ret |-> ixRet, coll |-> collection]
    /\ UNCHANGED <<pdf_path, ckVars, srVars, svVars, ccVars>>

NextIndex == IndexCall

SpecIndex == InitIndex /\ [][NextIndex]_vars

(***************************************************************************)
(* The retriever called on its own: search, on the collection of an        *)
(* indexed document, with any n_results.                                   *)
(***************************************************************************)
\* most pages of the document a searched collection was indexed from
MaxSearchPages == 7
\* largest n_results given to search
MaxK == 6

Indexed(pdf) == process_and_store_pdf(<<>>, pdf, NoFail).coll

Queries == {<<"a">>, <<"b", "b", "b">>}

KValues == {None} \cup {Some(k) : k \in (0 - 1)..MaxK}

SearchFailPlans == {NoFail, [cap |-> "encode", n |-> 1], [cap |-> "query", n |-> 1]}

InitSearch ==
    /\ NoChunkerRun
    /\ pdf_path \in {[style |-> "plain", pages |-> n] : n \in 0..MaxSearchPages}
    /\ collection = Indexed(pdf_path)
    /\ NoIndexRun
    /\ NoSearch
    /\ NoService

Search ==
    \E q \in Queries, k \in KValues, plan \in SearchFailPlans :
    \E r \in {search([coll |-> collection, log |-> <<>>, n |-> NoCalls,
                      failed |-> FALSE], plan, q, k)} :
       /\ srArgs' = [query |-> q, n_results |-> k, plan |-> plan]
       /\ srRet' = [status |-> IF r.run.failed THEN "error" ELSE "ok",
                    results |-> r.results]
       /\ srLog' = r.run.log
       /\ UNCHANGED <<ckVars, ixVars, svVars, ccVars>>

NextSearch == Search

SpecSearch == InitSearch /\ [][NextSearch]_vars

(***************************************************************************)
(* The service: lifespan, then the /chat and /clear-history handlers.  A   *)
(* handler has no await in it: it runs from its first line to its last     *)
(* before the event loop starts another.                                   *)
(***************************************************************************)
\* most requests handled
MaxRequests == 4

\* the session ids clients send
ClientIds == {"s1", "default"}

\* what str(uuid.uuid4()) returns
Uuids == {"u1"}

SessionIds == ClientIds \cup Uuids

Messages == {<<"a">>, <<"b", "b", "b">>, <<" ">>, <<>>}

ChatFailPlans ==
    {NoFail} \cup {[cap |-> c, n |-> 1] : c \in {"encode", "query", "complete"}}

ServiceDocs == {[style |-> "plain", pages |-> n] : n \in {0, MaxSearchPages}}

\* a mutant: lifespan indexes without looking for the file
SourceAssumed(exists) == TRUE

\* os.path.exists(pdf_path)
SourceFound(exists) == exists

\* which capability call can raise in a run: any one, or none, with the
\* file in place; PdfReader(pdf_path) with the file missing
StartupPlans(exists) ==
    IF exists THEN FailPlans ELSE {[cap |-> "read", n |-> 1]}

\* lifespan: the startup part, up to the yield
Lifespan ==
    /\ phase = "boot"
    /\ IF SourceFound(pdfExists)
       THEN \E plan \in StartupPlans(pdfExists) :
            \E r \in {process_and_store_pdf(collection, pdf_path, plan)} :
               /\ collection' = r.coll
               /\ ixRet' = [status |-> r.status, count |-> r.count]
               /\ ixLog' = r.log
               /\ ixRuns' = ixRuns + 1
               /\ ixPrev' = [ret |-> ixRet, coll |-> collection]
               /\ phase' = IF r.status = "ok" THEN "serving" ELSE "crashed"
       ELSE /\ phase' = "serving"
            /\ UNCHANGED <<collection, ixRet, ixLog, ixRuns, ixPrev>>
    /\ UNCHANGED <<pdf_path, pdfExists, _rag_chains, last, nReq, ckVars, srVars, ccVars>>

\* request.session_id or str(uuid.uuid4()): the uuid is one no chain has
FreshUuid(chains) == CHOOSE u \in Uuids : u \notin DOMAIN chains

\* get_rag_chain: the chains after the lookup
get_rag_chain(chains, session_id) ==
    IF session_id \in DOMAIN chains THEN chains
    ELSE [sid \in DOMAIN chains \cup {session_id} |->
             IF sid = session_id THEN <<>> ELSE chains[sid]]

\* a mutant: only the empty message is rejected
IsEmpty(message) == message = <<>>

\* not request.message.strip()
IsBlank(message) == Strip(message) = <<>>

\* POST /chat with the given message and session_id (None: absent)
Chat(message, session_id, plan) ==
    /\ phase = "serving"
    /\ session_id = None => \E u \in Uuids : u \notin DOMAIN _rag_chains
    /\ IF IsBlank(message)
       THEN /\ last' = [op |-> "chat", message |-> message, sid |-> session_id,
                        status |-> 400, log |-> <<>>]
            /\ UNCHANGED _rag_chains
       ELSE LET sid == IF session_id = None THEN FreshUuid(_rag_chains)
                       ELSE session_id[1]
                chains == get_rag_chain(_rag_chains, sid)
            IN  \E r \in {query(collection, chains[sid], plan, message, None)} :
                   /\ _rag_chains' = [chains EXCEPT ![sid] = r.history]
                   /\ last' = [op |-> "chat", message |-> message,
                               sid |-> Some(sid),
                               status |-> IF r.status = "ok" THEN 200 ELSE 500,
                               answer |-> r.answer,
                               sources_count |-> r.context_used,
                               sent |-> r.sent, log |-> r.log]
    /\ UNCHANGED <<phase, pdfExists, ckVars, ixVars, srVars, ccVars>>

\* POST /clear-history with the given session_id (None: absent)
ClearHistory(session_id) ==
    /\ phase = "serving"
    /\ LET sid == IF session_id = None THEN "default" ELSE session_id[1] IN
       /\ _rag_chains' = clear_session(_rag_chains, sid)
       /\ last' = [op |-> "clear", sid |-> Some(sid), status |-> 200,
                   removed |-> Len(HistoryOf(_rag_chains, sid))]
    /\ UNCHANGED <<phase, pdfExists, ckVars, ixVars, srVars, ccVars>>

SessionArgs == {None} \cup {Some(sid) : sid \in SessionIds}

Request ==
    \/ \E m \in Messages, sid \in SessionArgs :
          \E plan \in (IF IsBlank(m) THEN {NoFail} ELSE ChatFailPlans) :
             Chat(m, sid, plan)
    \/ \E sid \in SessionArgs : ClearHistory(sid)

InitService ==
    /\ NoChunkerRun
    /\ pdf_path \in ServiceDocs
    /\ collection = <<>>
    /\ NoIndexRun
    /\ NoSearch
    /\ phase = "boot"
    /\ pdfExists \in BOOLEAN
    /\ _rag_chains = <<>>
    /\ last = NoRequest
    /\ nReq = 0
    /\ NoTasks

Next ==
    \/ Lifespan
    \/ /\ nReq < MaxRequests
       /\ nReq' = nReq + 1
       /\ Request

Spec == InitService /\ [][Next]_vars

(***************************************************************************)
(* One session of the service, with no bound on its requests: the history  *)
(* grows to its cap and is trimmed.                                        *)
(***************************************************************************)
InitSession ==
    /\ NoChunkerRun
    /\ pdf_path = [style |-> "plain", pages |-> MaxSearchPages]
    /\ collection = <<>>
    /\ NoIndexRun
    /\ NoSearch
    /\ NoService

SessionMessages == {<<"a">>, <<"b", "b", "b">>}

SessionFailPlans == {NoFail, [cap |-> "complete", n |-> 1]}

SessionRequest ==
    \/ \E m \in SessionMessages, plan \in SessionFailPlans :
          Chat(m, Some("s1"), plan)
    \/ ClearHistory(Some("s1"))

NextSession ==
    \/ Lifespan
    \/ /\ UNCHANGED nReq
       /\ SessionRequest

SpecSession == InitSession /\ [][NextSession]_vars

(***************************************************************************)
(* The event loop of the serving process: /chat requests are accepted      *)
(* while another one's handler is running, and each handler is followed    *)
(* statement by statement through RAGChain.query.                          *)
(***************************************************************************)
\* most requests in flight
MaxTasks == 3

TaskIds == 1..MaxTasks

NoTask == [pc |-> "none", sid |-> "", message |-> <<>>, answer |-> <<>>]

\* the message of request t: each request sends a text of its own
MessageOf(t) == Rep("a", t)

\* a mutant: the handler is run off the loop (a plain def, in the thread
\* pool), so the loop takes the next request while one is being handled
NeverBusy(tasks) == FALSE

\* chat is a coroutine with no await in it, and query is a plain call: from
\* the handler's first statement to its return the loop runs nothing else
LoopBusy(tasks) ==
    \E t \in DOMAIN tasks :
        tasks[t].pc \in {"answered", "user_appended", "assistant_appended"}

InitLoop ==
    /\ NoChunkerRun
    /\ pdf_path = [style |-> "plain", pages |-> MaxSearchPages]
    /\ collection = Indexed(pdf_path)
    /\ NoIndexRun
    /\ NoSearch
    /\ phase = "serving"
    /\ pdfExists = TRUE
    /\ _rag_chains = <<>>
    /\ last = NoRequest
    /\ nReq = 0
    /\ inflight = [t \in TaskIds |-> NoTask]
    /\ workers = <<>>

\* the server accepts request t for session sid: its handler is scheduled
Accept(t, sid) ==
    /\ inflight[t].pc = "none"
    /\ inflight' = [inflight EXCEPT ![t] =
                       [pc |-> "accepted", sid |-> sid,
                        message |-> MessageOf(t), answer |-> <<>>]]
    /\ UNCHANGED <<_rag_chains, phase, pdfExists, last, nReq, workers,
                   ckVars, ixVars, srVars>>

\* the loop starts the handler of t: get_rag_chain, then query up to the
\* answer of the completion client
Begin(t) ==
    /\ inflight[t].pc = "accepted"
    /\ ~LoopBusy(inflight)
    /\ LET sid == inflight[t].sid
           chains == get_rag_chain(_rag_chains, sid)
       IN  \E r \in {query(collection, chains[sid], NoFail,
                           inflight[t].message, None)} :
              /\ _rag_chains' = chains
              /\ inflight' = [inflight EXCEPT ![t].pc = "answered",
                                              ![t].answer = r.answer]
    /\ UNCHANGED <<phase, pdfExists, last, nReq, workers,
                   ckVars, ixVars, srVars>>

\* self.conversation_history.append({"role": "user", ...})
AppendUser(t) ==
    /\ inflight[t].pc = "answered"
    /\ _rag_chains' = [_rag_chains EXCEPT ![inflight[t].sid] =
                          Append(@, Turn("user", inflight[t].message))]
    /\ inflight' = [inflight EXCEPT ![t].pc = "user_appended"]
    /\ UNCHANGED <<phase, pdfExists, last, nReq, workers,
                   ckVars, ixVars, srVars>>

\* self.conversation_history.append({"role": "assistant", ...})
AppendAssistant(t) ==
    /\ inflight[t].pc = "user_appended"
    /\ _rag_chains' = [_rag_chains EXCEPT ![inflight[t].sid] =
                          Append(@, Turn("assistant", inflight[t].answer))]
    /\ inflight' = [inflight EXCEPT ![t].pc = "assistant_appended"]
    /\ UNCHANGED <<phase, pdfExists, last, nReq, workers,
                   ckVars, ixVars, srVars>>

\* the trim of the history, and the handler's return
Return(t) ==
    /\ inflight[t].pc = "assistant_appended"
    /\ _rag_chains' = [_rag_chains EXCEPT ![inflight[t].sid] = TrimHistory(@)]
    /\ inflight' = [inflight EXCEPT ![t].pc = "done"]
    /\ UNCHANGED <<phase, pdfExists, last, nReq, workers,
                   ckVars, ixVars, srVars>>

NextLoop ==
    \E t \in TaskIds :
        \/ \E sid \in ClientIds : Accept(t, sid)
        \/ Begin(t)
        \/ AppendUser(t)
        \/ AppendAssistant(t)
        \/ Return(t)

SpecLoop == InitLoop /\ [][NextLoop]_vars

(***************************************************************************)
(* The server processes and their startup: each process runs lifespan once *)
(* when it starts, against the one persisted collection; a process can be  *)
(* stopped at any point and started again.  process_and_store_pdf is       *)
(* followed page by page.                                                  *)
(***************************************************************************)
\* a mutant: the app is served by two worker processes
TwoWorkers == 1 + 1

\* uvicorn.run("app.main:app", ..., reload=True): one serving process
Workers == 1

WorkerIds == 1..Workers

\* all_chunks = [], total_indexed = 0
IdleRun == [coll |-> <<>>, log |-> <<>>, n |-> NoCalls, failed |-> FALSE,
            all_chunks |-> <<>>, total_indexed |-> 0]

Down == [pc |-> "down", run |-> IdleRun, page |-> 0]

StartupDocs ==
    {[style |-> "plain", pages |-> n] : n \in {3, BATCH_SIZE + 2}}
    \cup {[style |-> "long", pages |-> BATCH_SIZE + 1]}

InitStartup ==
    /\ NoChunkerRun
    /\ pdf_path \in StartupDocs
    /\ collection = <<>>
    /\ NoIndexRun
    /\ NoSearch
    /\ phase = "boot"
    /\ pdfExists = TRUE
    /\ _rag_chains = <<>>
    /\ last = NoRequest
    /\ nReq = 0
    /\ inflight = <<>>
    /\ workers = [p \in WorkerIds |-> Down]

\* a server process starts and enters lifespan
Launch(p) ==
    /\ workers[p].pc = "down"
    /\ ixRuns < MaxIndexRuns
    /\ workers' = [workers EXCEPT ![p].pc = "boot"]
    /\ UNCHANGED <<ixVars, inflight, ckVars, srVars, svVars>>

\* lifespan calls process_and_store_pdf: the guard on collection.count()
Guard(p) ==
    /\ workers[p].pc = "boot"
    /\ pdfExists
    /\ ixRuns' = ixRuns + 1
    /\ workers' = [workers EXCEPT ![p] =
                      IF AlreadyIndexed(CollectionCount(collection))
                      THEN [pc |-> "serving", run |-> IdleRun, page |-> 0]
                      ELSE [pc |-> "indexing", run |-> IdleRun, page |-> 1]]
    /\ UNCHANGED <<pdf_path, collection, ixRet, ixLog, ixPrev, inflight,
                   ckVars, srVars, svVars>>

\* one turn of the loop over the pages
Page(p) ==
    /\ workers[p].pc = "indexing"
    /\ workers[p].page <= pdf_path.pages
    /\ \E r \in {IndexPage([workers[p].run EXCEPT !.coll = collection],
                           NoFail, pdf_path, workers[p].page)} :
          /\ collection' = r.coll
          /\ workers' = [workers EXCEPT ![p].run = [r EXCEPT !.coll = <<>>],
                                        ![p].page = @ + 1]
    /\ UNCHANGED <<pdf_path, ixRuns, ixRet, ixLog, ixPrev, inflight,
                   ckVars, srVars, svVars>>

\* "Store remaining chunks", the return, and lifespan's yield
Finish(p) ==
    /\ workers[p].pc = "indexing"
    /\ workers[p].page > pdf_path.pages
    /\ \E b \in {_store_batch([workers[p].run EXCEPT !.coll = collection],
                              NoFail, workers[p].run.all_chunks)} :
          /\ collection' = b.run.coll
          /\ workers' = [workers EXCEPT
                 ![p].pc = "serving",
                 ![p].run = [b.run EXCEPT !.coll = <<>>,
                                          !.total_indexed = @ + b.indexed]]
    /\ UNCHANGED <<pdf_path, ixRuns, ixRet, ixLog, ixPrev, inflight,
                   ckVars, srVars, svVars>>

\* the process ends: it is stopped, or killed where it stands
Exit(p) ==
    /\ workers[p].pc # "down"
    /\ workers' = [workers EXCEPT ![p] = Down]
    /\ UNCHANGED <<ixVars, inflight, ckVars, srVars, svVars>>

NextStartup ==
    \E p \in WorkerIds :
        \/ Launch(p)
        \/ Guard(p)
        \/ Page(p)
        \/ Finish(p)
        \/ Exit(p)

SpecStartup == InitStartup /\ [][NextStartup]_vars

(***************************************************************************)
(* The chunker's claims (SpecChunk).                                       *)
(***************************************************************************)
\* the paragraphs of a text that the chunker keeps: stripped, not empty
ParagraphsOf(text) ==
    LET ps == SplitParagraphs(text) IN
    SelectSeq([i \in 1..Len(ps) |-> Strip(ps[i])], LAMBDA q : q # <<>>)

\* the chunks of a list whose text is longer than the threshold
Oversized(chunks, T) == {i \in 1..Len(chunks) : Len(chunks[i].text) > T}

\* C1: every chunk one call of the chunker returns has a text of at most
\* chunk_size characters, except at most one oversized chunk per call, and
\* that one only when a single paragraph is itself longer than chunk_size.
C1_ChunkLengthBound ==
    ckDone =>
        /\ Cardinality(Oversized(ckOut, ckSize)) <= 1
        /\ Oversized(ckOut, ckSize) # {} =>
              \E i \in 1..Len(ParagraphsOf(ckText)) :
                  Len(ParagraphsOf(ckText)[i]) > ckSize

(***************************************************************************)
(* The indexer's claims (SpecIndex).                                       *)
(***************************************************************************)
\* the entries of a call log that are embedding calls or store writes
IsFlushCall(e) == e.cap \in {"encode", "add"}

FlushCalls(log) == SelectSeq(log, IsFlushCall)

\* the ids handed to collection.add in a run, in order, batch after batch
IsAddCall(e) == e.cap = "add"

RECURSIVE ArgsOf(_)
ArgsOf(calls) ==
    IF calls = <<>> THEN <<>> ELSE Head(calls).arg \o ArgsOf(Tail(calls))

AddedIds(log) == ArgsOf(SelectSeq(log, IsAddCall))

\* the ids of the batches a run's successful collection.add calls wrote
PersistedIds(log) ==
    UNION {{log[i].arg[j] : j \in 1..Len(log[i].arg)} :
              i \in {k \in 1..Len(log) : log[k].cap = "add" /\ log[k].ok}}

\* C2: a second call of process_and_store_pdf right after a successful one,
\* itself without a failure, leaves the collection as it was and returns
\* the same count; when the first call returned a count above zero, the
\* second makes no embedding call and no store write.
C2_IndexIdempotent ==
    (ixRuns >= 2 /\ ixPrev.ret.status = "ok" /\ ixRet.status = "ok") =>
        /\ collection = ixPrev.coll
        /\ ixRet.count = ixPrev.ret.count
        /\ ixRet.count = Len(collection)
        /\ ixPrev.ret.count > 0 => FlushCalls(ixLog) = <<>>

\* C2's case: two successful calls in a row on a document of more than one
\* batch.
C2_Witness ==
    /\ ixRuns >= 2
    /\ ixPrev.ret.status = "ok"
    /\ ixRet.status = "ok"
    /\ ixRet.count > BATCH_SIZE

\* C6: the ids written in one indexing run are pairwise different, and the
\* chunks of each page carry the page number with the ordinals 0, 1, 2, ...
\* in the order they were produced.
C6_ChunkIdsUnique ==
    LET ids == AddedIds(ixLog) IN
    /\ \A i, j \in 1..Len(ids) : ids[i] = ids[j] => i = j
    /\ \A i \in 1..Len(collection) :
          collection[i].id =
              ChunkIdStr(collection[i].metadata.page,
                         Cardinality({j \in 1..(i - 1) :
                             collection[j].metadata.page =
                                 collection[i].metadata.page}))

\* C6's case: a run has written more than one batch, with pages of two
\* chunks among them.
C6_Witness ==
    /\ ixRet.status = "ok"
    /\ Len(AddedIds(ixLog)) > BATCH_SIZE
    /\ \E i \in 1..Len(collection) :
          collection[i].id = ChunkIdStr(collection[i].metadata.page, 1)

\* C10: when an embedding call or a store write of a batch raises, the run
\* ends with the failure and that call is the last one it makes; the
\* batches written before it stay in the collection, and nothing else is
\* in it: not the failing batch, not the chunks of later pages.
C10_NoRollback ==
    \A i \in 1..Len(ixLog) :
        (IsFlushCall(ixLog[i]) /\ ~ixLog[i].ok) =>
            /\ ixRet.status = "error"
            /\ i = Len(ixLog)
            /\ IdsOf(collection) = PersistedIds(ixLog)
            /\ \A j \in 1..Len(ixLog[i].arg) :
                   ixLog[i].arg[j] \notin IdsOf(collection)
            /\ Len(collection) = Cardinality(PersistedIds(ixLog))

\* C10's case: a batch failed after another had been written, with pages
\* of the document still to come.
C10_Witness ==
    /\ ixRet.status = "error"
    /\ ixLog # <<>>
    /\ IsFlushCall(ixLog[Len(ixLog)])
    /\ ~ixLog[Len(ixLog)].ok
    /\ Len(collection) >= BATCH_SIZE
    /\ pdf_path.style = "plain"
    /\ pdf_path.pages > 2 * BATCH_SIZE

(***************************************************************************)
(* The retriever's claims (SpecSearch).                                    *)
(***************************************************************************)
\* the results search is to return for k: the k nearest records, nearest
\* first
Nearest(coll, q, k) ==
    LET top == Ranked(coll, Embed(q)) IN
    [i \in 1..Min(k, Len(coll)) |->
        [text |-> top[i].document,
         distance |-> Some(Distance(Embed(q), top[i].embedding)),
         metadata |-> Some(top[i].metadata)]]

Searched == srRet.status # "none" /\ srArgs.plan = NoFail

\* C5: a search with n_results k >= 1, no capability raising, does not
\* fail and returns the min(k, size of the collection) nearest records in
\* ascending distance, so none for an empty collection.
C5_SearchBounded ==
    (Searched /\ srArgs.n_results # None /\ srArgs.n_results[1] >= 1) =>
        LET k == srArgs.n_results[1] IN
        /\ srRet.status = "ok"
        /\ Len(srRet.results) = Min(k, Len(collection))
        /\ srRet.results = Nearest(collection, srArgs.query, k)
        /\ \A i \in 1..(Len(srRet.results) - 1) :
               srRet.results[i].distance[1] <= srRet.results[i + 1].distance[1]

\* C5's case: a search for more records than a collection of several
\* records at different distances holds.
C5_Witness ==
    /\ Searched
    /\ srArgs.n_results # None
    /\ srArgs.n_results[1] > Len(collection)
    /\ Len(srRet.results) >= 3
    /\ srRet.results[1].distance[1] < srRet.results[3].distance[1]

\* C8: a search whose n_results is absent or less than 1 does not fail and
\* asks the collection for max_context_chunks results.
C8_KClamped ==
    (Searched /\ (srArgs.n_results = None \/ srArgs.n_results[1] < 1)) =>
        /\ srRet.status = "ok"
        /\ \E i \in 1..Len(srLog) :
               srLog[i].cap = "query" /\ srLog[i].arg = <<max_context_chunks>>

(***************************************************************************)
(* The sessions' claims (Spec, SpecSession).                               *)
(***************************************************************************)
\* the step is a /chat request of session sid answered with the status
ChatStep(sid, status) ==
    /\ last'.op = "chat"
    /\ last'.sid = Some(sid)
    /\ last'.status = status
    /\ phase = "serving"

\* the two turns a successful chat is to append
NewTurns == <<Turn("user", last'.message), Turn("assistant", last'.answer)>>

\* C3: no history is ever longer than the cap of 20 turns, and a successful
\* chat leaves the session with the most recent 20 turns of its history
\* followed by the two new turns, in their order.
C3_HistoryCapped ==
    [][\A sid \in DOMAIN _rag_chains' :
          /\ Len(_rag_chains'[sid]) <= HistoryCap
          /\ ChatStep(sid, 200) =>
                _rag_chains'[sid] =
                    LastN(HistoryOf(_rag_chains, sid) \o NewTurns, HistoryCap)]_vars

\* C3's case: the history is at its cap and its oldest exchange, the one
\* answered when the session had no history, is gone.
C3_Witness ==
    /\ "s1" \in DOMAIN _rag_chains
    /\ Len(_rag_chains["s1"]) = HistoryCap
    /\ _rag_chains["s1"][2].content # Completion(<<"first">>)

\* C7: a successful chat appends two turns to what the session held, the
\* user's turn with the message as sent and then the assistant's turn with
\* the answer returned; they are the last two turns of the history, the
\* turns before them are the most recent ones held before, and
\* sources_count is the number of chunks retrieved.
C7_ExchangeAppended ==
    [][\A sid \in SessionIds :
          ChatStep(sid, 200) =>
              LET old == HistoryOf(_rag_chains, sid)
                  new == _rag_chains'[sid]
                  n   == Len(new)
              IN  /\ n = Min(Len(old) + 2, HistoryCap)
                  /\ new[n - 1] = Turn("user", last'.message)
                  /\ new[n] = Turn("assistant", last'.answer)
                  /\ SubSeq(new, 1, n - 2) = LastN(old, n - 2)
                  /\ last'.sources_count = Min(max_context_chunks, Len(collection))
                  /\ last'.sources_count =
                        Len(Nearest(collection, last'.message, max_context_chunks))]_vars

\* C7's case: a chat answered from five chunks whose two turns pushed the
\* oldest exchange out of a full history.
C7_Witness ==
    /\ last.op = "chat"
    /\ last.status = 200
    /\ last.sources_count = max_context_chunks
    /\ Len(last.sent) = HistoryWindow + 1
    /\ Len(_rag_chains["s1"]) = HistoryCap
    /\ _rag_chains["s1"][2].content # Completion(<<"first">>)

\* the capability calls of a log, by name
CapsCalled(log, cap) == Len(SelectSeq(log, LAMBDA e : e.cap = cap))

\* C9: a chat in which search or the completion client raises is answered
\* with one failure that carries no answer, has called no capability
\* twice, and leaves every history as it was.
C9_FailureLeavesHistory ==
    [][\A sid \in SessionIds :
          ChatStep(sid, 500) =>
              /\ \A other \in SessionIds :
                     HistoryOf(_rag_chains', other) = HistoryOf(_rag_chains, other)
              /\ last'.answer = <<>>
              /\ last'.sources_count = 0
              /\ \A cap \in Caps : CapsCalled(last'.log, cap) <= 1
              /\ ~last'.log[Len(last'.log)].ok]_vars

\* C9's case: the completion client raised in a session that holds turns.
C9_Witness ==
    /\ last.op = "chat"
    /\ last.status = 500
    /\ CapsCalled(last.log, "complete") = 1
    /\ HistoryOf(_rag_chains, last.sid[1]) # <<>>

\* the step is a /clear-history request for session sid
ClearStep(sid) ==
    /\ last'.op = "clear"
    /\ last'.sid = Some(sid)
    /\ nReq' = nReq + 1

\* the step is a /chat request that reached query for session sid
ChatOf(sid) ==
    /\ last'.op = "chat"
    /\ last'.sid = Some(sid)
    /\ last'.status \in {200, 500}
    /\ nReq' = nReq + 1

\* C4: a clear leaves the session id with an empty history, whatever it
\* held; the history stays empty until the next chat of that id; and that
\* chat sends the completion client the new prompt alone, no prior turn.
C4_ClearEmpties ==
    [][\A sid \in SessionIds :
          /\ ClearStep(sid) => HistoryOf(_rag_chains', sid) = <<>>
          /\ (HistoryOf(_rag_chains, sid) = <<>> /\ ~ChatOf(sid)) =>
                HistoryOf(_rag_chains', sid) = <<>>
          /\ (HistoryOf(_rag_chains, sid) = <<>> /\ ChatOf(sid)
                 /\ last'.sent # <<>>) =>
                /\ Len(last'.sent) = 1
                /\ last'.sent[1].role = "user"]_vars

\* C4's case: a clear of a session that held turns.
C4_Witness ==
    /\ last.op = "clear"
    /\ last.removed > 0
    /\ HistoryOf(_rag_chains, last.sid[1]) = <<>>

(***************************************************************************)
(* The event loop's claims (SpecLoop).                                     *)
(***************************************************************************)
\* how many turns the handler of a request has appended so far
Appended(task) ==
    IF task.pc = "user_appended" THEN 1
    ELSE IF task.pc \in {"assistant_appended", "done"} THEN 2
    ELSE 0

RECURSIVE SumAppended(_, _)
SumAppended(tasks, ts) ==
    IF ts = {} THEN 0
    ELSE LET t == CHOOSE x \in ts : TRUE IN
         Appended(tasks[t]) + SumAppended(tasks, ts \ {t})

\* C11: with requests of one session id in flight together, in every
\* interleaving the user turn of a request is followed at once by the
\* assistant turn of the same request and is in the history once, and the
\* history holds the turns appended and no other: none lost, none twice.
C11_AppendsSerialized ==
    /\ \A t \in TaskIds :
          Appended(inflight[t]) > 0 =>
              LET h == _rag_chains[inflight[t].sid]
                  at == {i \in 1..Len(h) :
                            h[i] = Turn("user", inflight[t].message)}
              IN  /\ Cardinality(at) = 1
                  /\ \A i \in at :
                        IF Appended(inflight[t]) = 1 THEN i = Len(h)
                        ELSE /\ i < Len(h)
                             /\ h[i + 1] = Turn("assistant", inflight[t].answer)
    /\ \A sid \in DOMAIN _rag_chains :
          Len(_rag_chains[sid]) =
              SumAppended(inflight, {t \in TaskIds : inflight[t].sid = sid})

\* C11's case: a request of a session was accepted while the handler of
\* another request of that session was between its two appends, and a
\* third had already gone through.
C11_Witness ==
    \E t1, t2, t3 \in TaskIds :
        /\ inflight[t1].pc = "user_appended"
        /\ inflight[t2].pc = "accepted"
        /\ inflight[t3].pc = "done"
        /\ inflight[t1].sid = inflight[t2].sid
        /\ inflight[t1].sid = inflight[t3].sid

(***************************************************************************)
(* The startup's claims (SpecStartup).                                     *)
(***************************************************************************)
\* the processes that have passed the guard and have not returned yet
Indexing == {p \in WorkerIds : workers[p].pc = "indexing"}

ChatWith(message) ==
    /\ last'.op = "chat"
    /\ last'.message = message
    /\ nReq' = nReq + 1

\* C13: a /chat request whose message is empty or only whitespace ends in
\* the validation error, with no capability called, no chain created for
\* its session id, and every history and the collection as they were.
C13_BlankRejected ==
    [][\A m \in {<<>>, <<" ">>} :
          ChatWith(m) =>
              /\ last'.status = 400
              /\ last'.log = <<>>
              /\ _rag_chains' = _rag_chains
              /\ collection' = collection]_vars

\* C13's case: a blank message was rejected for a session id that has no
\* chain, while another session holds turns.
C13_Witness ==
    /\ last.op = "chat"
    /\ last.status = 400
    /\ last.message = <<" ">>
    /\ last.sid # None
    /\ last.sid[1] \notin DOMAIN _rag_chains
    /\ \E sid \in DOMAIN _rag_chains : _rag_chains[sid] # <<>>

\* C14: with the source document missing at startup, lifespan skips the
\* indexing: no capability is called, the collection stays as it was, and
\* the service goes on to serve; its chats are then answered from zero
\* chunks.
C14_MissingSourceSkipped ==
    [][~pdfExists =>
          /\ phase = "boot" =>
                /\ phase' = "serving"
                /\ collection' = collection
                /\ ixRuns' = ixRuns
                /\ ixLog' = <<>>
          /\ (last'.op = "chat" /\ nReq' = nReq + 1 /\ last'.status = 200) =>
                /\ collection = <<>>
                /\ last'.sources_count = 0]_vars

\* C14's case: the service started without its source document and has
\* answered a chat.
C14_Witness ==
    /\ ~pdfExists
    /\ phase = "serving"
    /\ ixRuns = 0
    /\ last.op = "chat"
    /\ last.status = 200
    /\ last.sources_count = 0

(***************************************************************************)
(* The indexer's claims on a whole run (SpecIndex).                        *)
(***************************************************************************)
\* the chunks of the pages from page i on, page after page
RECURSIVE ChunksInPages(_, _, _)
ChunksInPages(pdf, i, j) ==
    IF i > j THEN <<>>
    ELSE IF i = j
    THEN chunk_text_simple(Strip(ExtractText(pdf, i)), i, DefaultChunkSize)
    ELSE LET mid == (i + j) \div 2 IN
         ChunksInPages(pdf, i, mid) \o ChunksInPages(pdf, mid + 1, j)

ChunksOfPages(pdf, i) == ChunksInPages(pdf, i, pdf.pages)

\* the last call ran on an empty collection and returned a count
IndexedFromEmpty == ixRet.status = "ok" /\ ixPrev.coll = <<>>

\* C15: a call of process_and_store_pdf on an empty collection that ends
\* without a failure has written every chunk of every page once, in order,
\* the last partial buffer too, and returns their number, which is also
\* the number of records in the collection; with no chunk to write it
\* returns 0 and makes no embedding call and no store write.
C15_AllChunksIndexed ==
    IndexedFromEmpty =>
        LET all == ChunksOfPages(pdf_path, 1) IN
        /\ ixRet.count = Len(all)
        /\ Len(collection) = Len(all)
        /\ AddedIds(ixLog) = [i \in 1..Len(all) |-> all[i].id]
        /\ \A i \in 1..Len(all) :
               /\ collection[i].id = all[i].id
               /\ collection[i].document = all[i].text
               /\ collection[i].metadata.page = all[i].page
        /\ all = <<>> => (ixRet.count = 0 /\ FlushCalls(ixLog) = <<>>)

\* C15's case: a run that flushed two full buffers and then a partial one.
C15_Witness ==
    /\ IndexedFromEmpty
    /\ ixRet.count > 2 * BATCH_SIZE
    /\ ixRet.count % BATCH_SIZE # 0
    /\ Len(FlushCalls(ixLog)) = 6

(***************************************************************************)
(* The startup's claims on the buffer of a run (SpecStartup).              *)
(***************************************************************************)
IdsIn(chunks) == [i \in 1..Len(chunks) |-> chunks[i].id]

\* the chunks of the pages 1..n
ChunksUpTo(pdf, n) == ChunksOfPages([pdf EXCEPT !.pages = n], 1)

\* the page of the chunk that has the id
PageOfId(pdf, id) ==
    LET all == ChunksOfPages(pdf, 1) IN
    all[CHOOSE k \in 1..Len(all) : all[k].id = id].page

\* how many chunks of a batch come from pages before the batch's last page
BeforeLastPage(pdf, ids) ==
    LET last_page == PageOfId(pdf, ids[Len(ids)]) IN
    Cardinality({j \in 1..Len(ids) : PageOfId(pdf, ids[j]) # last_page})

\* after each page the buffer holds fewer than BATCH_SIZE chunks, and they
\* are the chunks produced since the last flush; a flush is one embedding
\* call and then one store write of the same batch; a batch flushed inside
\* the loop holds at least BATCH_SIZE chunks
FlushDiscipline ==
    \A p \in WorkerIds :
        LET w == workers[p]
            log == w.run.log
        IN  /\ Len(w.run.all_chunks) < BATCH_SIZE
            /\ Len(log) % 2 = 0
            /\ \A i \in 1..Len(log) :
                   i % 2 = 1 => /\ log[i].cap = "encode"
                                /\ log[i + 1].cap = "add"
                                /\ log[i + 1].arg = log[i].arg
            /\ w.pc = "indexing" =>
                   /\ \A i \in 1..Len(log) : Len(log[i].arg) >= BATCH_SIZE
                   /\ AddedIds(log) \o IdsIn(w.run.all_chunks) =
                          IdsIn(ChunksUpTo(pdf_path, w.page - 1))
            /\ w.pc = "serving" =>
                   \A i \in 1..(Len(log) - 2) : Len(log[i].arg) >= BATCH_SIZE

\* C16: the buffer is flushed whenever it reaches BATCH_SIZE chunks, and no
\* batch passed to the embedding model or the collection holds more than
\* BATCH_SIZE chunks.
C16_BatchThreshold ==
    /\ FlushDiscipline
    /\ \A p \in WorkerIds :
           \A i \in 1..Len(workers[p].run.log) :
               Len(workers[p].run.log[i].arg) <= BATCH_SIZE

\* C16, amended: the buffer is flushed whenever it reaches BATCH_SIZE chunks
\* at the end of a page; a batch holds fewer than BATCH_SIZE chunks from
\* the pages before its last page, and all the chunks of its last page, so
\* it can hold more than BATCH_SIZE.
C16_BatchThresholdPerPage ==
    /\ FlushDiscipline
    /\ \A p \in WorkerIds :
           \A i \in 1..Len(workers[p].run.log) :
               BeforeLastPage(pdf_path, workers[p].run.log[i].arg) < BATCH_SIZE

\* C16's case: a page of two chunks arrived with BATCH_SIZE - 1 chunks in
\* the buffer, and the batch was flushed.
C16_Witness ==
    \E p \in WorkerIds :
        /\ workers[p].run.log # <<>>
        /\ Len(workers[p].run.log[1].arg) = BATCH_SIZE + 1
        /\ workers[p].run.all_chunks = <<>>

(***************************************************************************)
(* The session's claims on the messages sent (SpecSession).                *)
(***************************************************************************)
\* the step is a /chat request of the session that got as far as calling
\* the completion client
ChatSent(sid) ==
    /\ last'.op = "chat"
    /\ last'.sid = Some(sid)
    /\ last'.status \in {200, 500}
    /\ last'.sent # <<>>
    /\ phase = "serving"

\* C17: the messages handed to the completion client are the most recent
\* min(6, length of the history) turns of the session, in their order,
\* followed by one user turn made of the context block and the question:
\* never more than 7 messages, the last one a user turn.
C17_MessageWindow ==
    [][\A sid \in SessionIds :
          ChatSent(sid) =>
              LET old == HistoryOf(_rag_chains, sid)
                  n == Min(HistoryWindow, Len(old))
                  sent == last'.sent
              IN  /\ Len(sent) = n + 1
                  /\ Len(sent) <= HistoryWindow + 1
                  /\ SubSeq(sent, 1, n) = SubSeq(old, Len(old) - n + 1, Len(old))
                  /\ sent[n + 1] =
                        Turn("user",
                             UserMessage(_build_context_prompt(
                                 Nearest(collection, last'.message,
                                         max_context_chunks)),
                                 last'.message))]_vars

\* C17's case: a chat of a session that held more than six turns.
C17_Witness ==
    /\ last.op = "chat"
    /\ last.status = 200
    /\ Len(last.sent) = HistoryWindow + 1
    /\ Len(_rag_chains["s1"]) = HistoryWindow + 4

(***************************************************************************)
(* The chunker's claims on what a chunk holds (SpecChunk).                 *)
(***************************************************************************)
\* the paragraphs of the chunks from chunk i on, chunk after chunk
RECURSIVE ParagraphsIn(_, _)
ParagraphsIn(chunks, i) ==
    IF i > Len(chunks) THEN <<>>
    ELSE SplitParagraphs(chunks[i].text) \o ParagraphsIn(chunks, i + 1)

\* C18: the paragraphs of the chunks, chunk after chunk, are the trimmed
\* non-empty paragraphs of the text, each once and in the text's order; no
\* chunk is empty; a text with no such paragraph gives no chunk; and a
\* paragraph longer than chunk_size is alone in its chunk.
C18_NothingLost ==
    ckDone =>
        /\ ParagraphsIn(ckOut, 1) = ParagraphsOf(ckText)
        /\ \A i \in 1..Len(ckOut) : ckOut[i].text # <<>>
        /\ ParagraphsOf(ckText) = <<>> => ckOut = <<>>
        /\ \A i \in 1..Len(ckOut) :
               LET ps == SplitParagraphs(ckOut[i].text) IN
               (\E j \in 1..Len(ps) : Len(ps[j]) > ckSize) => Len(ps) = 1

\* C18's case: a text of three paragraphs, the first two in one chunk and
\* the third in the next.
C18_Witness ==
    /\ ckDone
    /\ Len(ckOut) = 2
    /\ Len(SplitParagraphs(ckOut[1].text)) = 2
    /\ Len(SplitParagraphs(ckText)) = 3

(***************************************************************************)
(* The service's claims on what a request leaves alone (Spec).             *)
(***************************************************************************)
\* the step is a request, /chat or /clear-history, of session sid
RequestOf(sid) ==
    /\ nReq' = nReq + 1
    /\ last'.op \in {"chat", "clear"}
    /\ last'.sid = Some(sid)

\* C19: a chat or a clear of one session id leaves every other session id
\* with the chain and the history it had, and no request changes the
\* records of the collection.
C19_SessionsIsolated ==
    [][/\ nReq' = nReq + 1 => collection' = collection
       /\ \A a \in SessionIds :
             RequestOf(a) =>
                 \A b \in SessionIds \ {a} :
                     /\ b \in DOMAIN _rag_chains' <=> b \in DOMAIN _rag_chains
                     /\ HistoryOf(_rag_chains', b) = HistoryOf(_rag_chains, b)]_vars

\* C19's case: a session was cleared of its turns while another session
\* holds turns, with the collection indexed.
C19_Witness ==
    /\ last.op = "clear"
    /\ last.removed > 0
    /\ collection # <<>>
    /\ \E b \in DOMAIN _rag_chains : _rag_chains[b] # <<>>

(***************************************************************************)
(* The session's claims on the roles of its turns (SpecSession).           *)
(***************************************************************************)
\* the turns are user, assistant, user, ... from the first on
Alternates(turns) ==
    \A i \in 1..Len(turns) :
        turns[i].role = IF i % 2 = 1 THEN "user" ELSE "assistant"

\* C20: after any chats and clears of a session, failed chats and trims at
\* the cap among them, its history has an even number of turns that are
\* user, assistant, user, ... in turn; so the messages sent to the
\* completion client start with a user turn, alternate, and end with one.
C20_RolesAlternate ==
    /\ \A sid \in DOMAIN _rag_chains :
          /\ Len(_rag_chains[sid]) % 2 = 0
          /\ Alternates(_rag_chains[sid])
    /\ (last.op = "chat" /\ last.status \in {200, 500}) =>
          /\ Alternates(last.sent)
          /\ last.sent # <<>> => Len(last.sent) % 2 = 1

\* C20's case: a chat failed in a session whose history is at the cap and
\* has lost its oldest exchange to the trim.
C20_Witness ==
    /\ last.op = "chat"
    /\ last.status = 500
    /\ Len(last.sent) = HistoryWindow + 1
    /\ Len(_rag_chains["s1"]) = HistoryCap
    /\ _rag_chains["s1"][2].content # Completion(<<"first">>)

(***************************************************************************)
(* The indexer's claims on the calls after a failed run (SpecIndex).       *)
(***************************************************************************)
\* a collection holds some of the document's chunks and not all of them:
\* what a run leaves that failed after it had written a batch
PartlyIndexed(coll) ==
    /\ coll # <<>>
    /\ Len(coll) < Len(ChunksOfPages(pdf_path, 1))

\* C21: a run that fails after it has written a batch leaves the
\* collection partly indexed; every call of process_and_store_pdf on a
\* partly indexed collection makes no embedding call and no store write,
\* leaves the collection as it is, and, unless its own count call raises,
\* returns the number of records held as a success: the chunks that are
\* missing are never indexed.
C21_PartialIndexStays ==
    /\ (ixRet.status = "error" /\ PersistedIds(ixLog) # {}) =>
           PartlyIndexed(collection)
    /\ (ixRuns >= 1 /\ PartlyIndexed(ixPrev.coll)) =>
           /\ collection = ixPrev.coll
           /\ FlushCalls(ixLog) = <<>>
           /\ ixRet.status = "ok" => ixRet.count = Len(collection)

\* C21's case: after a run that failed with one batch written, two more
\* calls have returned the partial count as a success.
C21_Witness ==
    /\ ixRuns = 3
    /\ PartlyIndexed(collection)
    /\ ixPrev.coll = collection
    /\ ixPrev.ret.status = "ok"
    /\ ixRet.status = "ok"
    /\ ixRet.count = BATCH_SIZE

=============================================================================
